---- MODULE Spec2Model ----
(***************************************************************************)
(* Abundance greedy clustering of amplicon sequences (src/agc/agc.py).     *)
(*                                                                         *)
(* The run of main() is modelled as one sequential process:                *)
(*   read_fasta -> dereplication_fulllength -> abundance_greedy_clustering *)
(*   -> write_OTU.                                                         *)
(* Strings are tuples of one-character strings.  A record [sequence,count] *)
(* of the code is the tuple <<sequence, count>> (index 0/1 becomes 1/2).   *)
(***************************************************************************)
EXTENDS Integers, Sequences, FiniteSets

VARIABLES
    file,        \* the lines of the decompressed amplicon file
    minseqlen,   \* argument -s
    mincount,    \* argument -m
    pc,          \* position of the run
    err,         \* the exception that ended the run, "none" otherwise
    i,           \* read_fasta: index of the next line of f
    sequence,    \* read_fasta: the accumulator `sequence`
    sequences,   \* list(read_fasta(...)): what the generator has yielded
    seq_count,   \* list(dereplication_fulllength(...))
    list_OTU,    \* abundance_greedy_clustering: list_OTU
    k,           \* index in seq_count of the candidate `seq`
    j,           \* index in list_OTU of `seq_OTU`
    flag,        \* abundance_greedy_clustering: flag
    align,       \* the alignment pair returned by nw.global_align
    identity,    \* the value returned by get_identity(align)
    calls,       \* history: every nw.global_align call made, in order
    output       \* the lines written by write_OTU

vars == <<file, minseqlen, mincount, pc, err, i, sequence, sequences,
          seq_count, list_OTU, k, j, flag, align, identity, calls, output>>

----------------------------------------------------------------------------
(* Bounds of the model *)

\* the longest file, in lines
MaxLines == 6
\* the length of a body line of the file
LineLen == 50
\* the largest -m argument
MaxMinCount == 2
\* the longest alignment drawn for get_identity on its own
MaxAlignLen == 3

----------------------------------------------------------------------------
(* Program constants *)

\* agc.py:149  get_identity(align) >= 97.0
IdentityThreshold == 97
\* agc.py:167  textwrap.fill(seq, width=80)
WrapWidth == 80

----------------------------------------------------------------------------
(* Strings *)

Rep(c, n) == [x \in 1..n |-> c]

Whitespace == {" ", "\n", "\t"}

RECURSIVE lstrip(_)
lstrip(s) ==
    IF s # <<>> /\ Head(s) \in Whitespace THEN lstrip(Tail(s)) ELSE s

RECURSIVE rstrip(_)
rstrip(s) ==
    IF s # <<>> /\ s[Len(s)] \in Whitespace
    THEN rstrip(SubSeq(s, 1, Len(s) - 1))
    ELSE s

\* str.strip()
strip(s) == rstrip(lstrip(s))

\* str.startswith(c) for a one-character prefix
startswith(s, c) == Len(s) >= 1 /\ s[1] = c

Max(a, b) == IF a >= b THEN a ELSE b

----------------------------------------------------------------------------
(* The input files considered *)

HeaderLine == <<">", "\n">>
BodyLineP  == Rep("A", LineLen) \o <<"\n">>
BodyLineQ  == Rep("A", LineLen - 3) \o <<"C", "C", "C", "\n">>

Lines == {HeaderLine, BodyLineP, BodyLineQ}

Files == UNION {[1..n -> Lines] : n \in 0..MaxLines}

MinSeqLens == {0, LineLen, LineLen + 1}

MinCounts == 1..MaxMinCount

----------------------------------------------------------------------------
(* dereplication_fulllength *)

\* Counter(sequences): a dict keeps its keys in insertion order, so the
\* counter is the list of <<key, count>> in order of first occurrence.
RECURSIVE CounterFrom(_, _)
CounterFrom(seqs, acc) ==
    IF seqs = <<>> THEN acc
    ELSE LET s == Head(seqs)
             at == {x \in 1..Len(acc) : acc[x][1] = s}
         IN  IF at = {}
             THEN CounterFrom(Tail(seqs), Append(acc, <<s, 1>>))
             ELSE LET x == CHOOSE y \in at : TRUE
                  IN  CounterFrom(Tail(seqs),
                                  [acc EXCEPT ![x] = <<s, acc[x][2] + 1>>])

Counter(seqs) == CounterFrom(seqs, <<>>)

\* Place one item in a list sorted by count descending, before the items of
\* the same count that are already there.
RECURSIVE InsertBeforeTies(_, _)
InsertBeforeTies(sorted, item) ==
    IF sorted = <<>> THEN <<item>>
    ELSE IF Head(sorted)[2] > item[2]
         THEN <<Head(sorted)>> \o InsertBeforeTies(Tail(sorted), item)
         ELSE <<item>> \o sorted

\* Place one item in a list sorted by count descending, after the items of
\* the same count that are already there.
RECURSIVE InsertStable(_, _)
InsertStable(sorted, item) ==
    IF sorted = <<>> THEN <<item>>
    ELSE IF Head(sorted)[2] >= item[2]
         THEN <<Head(sorted)>> \o InsertStable(Tail(sorted), item)
         ELSE <<item>> \o sorted

\* sorted(items, key=itemgetter(1), reverse=True): a stable sort, equal
\* counts keep the order they have in items.
RECURSIVE SortByCountDesc(_, _)
SortByCountDesc(items, acc) ==
    IF items = <<>> THEN acc
    ELSE SortByCountDesc(Tail(items), InsertStable(acc, Head(items)))

\* Counter.most_common()
most_common(counter) == SortByCountDesc(counter, <<>>)

AbundanceOnlyAbove(count, m) == count > m

\* `if count >= mincount`
AbundanceFilter(count, m) == count >= m

RECURSIVE YieldAbundant(_, _)
YieldAbundant(items, m) ==
    IF items = <<>> THEN <<>>
    ELSE (IF AbundanceFilter(Head(items)[2], m) THEN <<Head(items)>> ELSE <<>>)
         \o YieldAbundant(Tail(items), m)

\* list(dereplication_fulllength(...)) given list(read_fasta(...))
dereplication_fulllength(seqs, m) == YieldAbundant(most_common(Counter(seqs)), m)

----------------------------------------------------------------------------
(* get_identity *)

\* [x for x in range(length_align) if alignment_list[0][x]==alignment_list[1][x]]
id_nucleotid(alignment_list, length_align) ==
    SelectSeq([x \in 1..length_align |-> x],
              LAMBDA x : alignment_list[1][x] = alignment_list[2][x])

\* The identity with only the positions that hold no gap counted.
get_identity_ungapped(alignment_list) ==
    LET length_align == Len(alignment_list[1])
        nb_id_nucleotid ==
            Len(SelectSeq(id_nucleotid(alignment_list, length_align),
                          LAMBDA x : alignment_list[1][x] # "-"))
    IN  [num |-> nb_id_nucleotid * 100, den |-> length_align]

\* (nb_id_nucleotid/length_align)*100 as the exact fraction num/den.
\* The caller handles length_align = 0 (ZeroDivisionError).
get_identity(alignment_list) ==
    LET length_align == Len(alignment_list[1])
        nb_id_nucleotid == Len(id_nucleotid(alignment_list, length_align))
    IN  [num |-> nb_id_nucleotid * 100, den |-> length_align]

\* no identity computed yet
NoIdentity == [num |-> 0, den |-> 0]

ReachesStrictly(ident, threshold) == ident.num > threshold * ident.den

\* ident >= threshold, for a fraction with den > 0
Reaches(ident, threshold) == ident.num >= threshold * ident.den

----------------------------------------------------------------------------
(* nw.global_align: the aligner is an external library.  It returns a    *)
(* global alignment of its two arguments, or raises.  The alignments     *)
(* considered place the first argument at an offset in the second, or    *)
(* flush right, the rest filled with gaps.                               *)

Gaps(n) == Rep("-", n)

\* a starts at column d + 1, b at column 1
PlaceAt(a, b, d) ==
    LET n == Max(Len(b), d + Len(a))
    IN  <<Gaps(d) \o a \o Gaps(n - d - Len(a)), b \o Gaps(n - Len(b))>>

\* both end at the last column
FlushRight(a, b) ==
    LET n == Max(Len(a), Len(b))
    IN  <<Gaps(n - Len(a)) \o a, Gaps(n - Len(b)) \o b>>

global_align(a, b) ==
    {PlaceAt(a, b, 0), FlushRight(a, b)}
        \cup (IF b # <<>> THEN {PlaceAt(a, b, 1)} ELSE {})

----------------------------------------------------------------------------
(* write_OTU *)

\* textwrap.fill(seq, width=80) of a string without whitespace: its pieces
\* of at most 80 characters
RECURSIVE fill(_)
fill(seq) ==
    IF Len(seq) <= WrapWidth THEN (IF seq = <<>> THEN <<>> ELSE <<seq>>)
    ELSE <<SubSeq(seq, 1, WrapWidth)>> \o fill(SubSeq(seq, WrapWidth + 1, Len(seq)))

\* one entry per OTU: the number and the count of the header line, and the
\* wrapped lines of the sequence
Written(OTU_list) ==
    [n \in 1..Len(OTU_list) |->
        [otu |-> n, occurrence |-> OTU_list[n][2], body |-> fill(OTU_list[n][1])]]

----------------------------------------------------------------------------
(* The run of main() *)

Init ==
    /\ file \in Files
    /\ minseqlen \in MinSeqLens
    /\ mincount \in MinCounts
    /\ pc = "read"
    /\ err = "none"
    /\ i = 1
    /\ sequence = <<>>
    /\ sequences = <<>>
    /\ seq_count = <<>>
    /\ list_OTU = <<>>
    /\ k = 0
    /\ j = 0
    /\ flag = TRUE
    /\ align = <<<<>>, <<>>>>
    /\ identity = NoIdentity
    /\ calls = <<>>
    /\ output = <<>>

\* read_fasta, a line that starts with ">"
ReadHeader ==
    /\ pc = "read"
    /\ i <= Len(file)
    /\ startswith(file[i], ">")
    /\ sequences' = IF Len(sequence) >= minseqlen
                    THEN Append(sequences, sequence)
                    ELSE sequences
    /\ sequence' = <<>>
    /\ i' = i + 1
    /\ UNCHANGED <<file, minseqlen, mincount, pc, err, seq_count, list_OTU,
                   k, j, flag, align, identity, calls, output>>

\* read_fasta, any other line
ReadBody ==
    /\ pc = "read"
    /\ i <= Len(file)
    /\ ~startswith(file[i], ">")
    /\ sequence' = sequence \o strip(file[i])
    /\ i' = i + 1
    /\ UNCHANGED <<file, minseqlen, mincount, pc, err, sequences, seq_count,
                   list_OTU, k, j, flag, align, identity, calls, output>>

\* read_fasta, after the last line: `yield sequence`
ReadEnd ==
    /\ pc = "read"
    /\ i > Len(file)
    /\ sequences' = Append(sequences, sequence)
    /\ pc' = "derep"
    /\ UNCHANGED <<file, minseqlen, mincount, err, i, sequence, seq_count,
                   list_OTU, k, j, flag, align, identity, calls, output>>

\* seq_count = list(dereplication_fulllength(...))
Dereplicate ==
    /\ pc = "derep"
    /\ seq_count' = dereplication_fulllength(sequences, mincount)
    /\ pc' = "seed"
    /\ UNCHANGED <<file, minseqlen, mincount, err, i, sequence, sequences,
                   list_OTU, k, j, flag, align, identity, calls, output>>

\* list_OTU = [seq_count[0]]
SeedFirstOTU ==
    /\ pc = "seed"
    /\ IF seq_count = <<>>
       THEN /\ pc' = "error"
            /\ err' = "IndexError"
            /\ UNCHANGED <<list_OTU, k>>
       ELSE /\ list_OTU' = <<seq_count[1]>>
            /\ k' = 2
            /\ pc' = "loop"
            /\ UNCHANGED err
    /\ UNCHANGED <<file, minseqlen, mincount, i, sequence, sequences, seq_count,
                   j, flag, align, identity, calls, output>>

\* `flag = True` set once before the loop instead of once per candidate
NextCandidateKeepFlag ==
    /\ pc = "loop"
    /\ k <= Len(seq_count)
    /\ j' = 1
    /\ pc' = "scan"
    /\ UNCHANGED <<file, minseqlen, mincount, err, i, sequence, sequences,
                   seq_count, list_OTU, k, flag, align, identity, calls, output>>

\* for seq in seq_count[1:]: flag = True
NextCandidate ==
    /\ pc = "loop"
    /\ k <= Len(seq_count)
    /\ flag' = TRUE
    /\ j' = 1
    /\ pc' = "scan"
    /\ UNCHANGED <<file, minseqlen, mincount, err, i, sequence, sequences,
                   seq_count, list_OTU, k, align, identity, calls, output>>

\* A call that raises is caught and the scan goes on with the next OTU.
AlignSkippingFailure ==
    /\ pc = "scan"
    /\ j <= Len(list_OTU)
    /\ LET a == list_OTU[j][1]
           b == seq_count[k][1]
       IN  \/ \E pair \in global_align(a, b) :
                 /\ align' = pair
                 /\ calls' = Append(calls, [a |-> a, b |-> b, ok |-> TRUE, pair |-> pair])
                 /\ pc' = "identity"
                 /\ UNCHANGED <<err, j>>
           \/ /\ calls' = Append(calls, [a |-> a, b |-> b, ok |-> FALSE, pair |-> align])
              /\ j' = j + 1
              /\ UNCHANGED <<pc, err, align>>
    /\ UNCHANGED <<file, minseqlen, mincount, i, sequence, sequences, seq_count,
                   list_OTU, k, flag, identity, output>>

\* for seq_OTU in list_OTU: align = nw.global_align(seq_OTU[0], seq[0], ...)
Align ==
    /\ pc = "scan"
    /\ j <= Len(list_OTU)
    /\ LET a == list_OTU[j][1]
           b == seq_count[k][1]
       IN  \/ \E pair \in global_align(a, b) :
                 /\ align' = pair
                 /\ calls' = Append(calls, [a |-> a, b |-> b, ok |-> TRUE, pair |-> pair])
                 /\ pc' = "identity"
                 /\ UNCHANGED err
           \/ /\ calls' = Append(calls, [a |-> a, b |-> b, ok |-> FALSE, pair |-> align])
              /\ pc' = "error"
              /\ err' = "AlignError"
              /\ UNCHANGED align
    /\ UNCHANGED <<file, minseqlen, mincount, i, sequence, sequences, seq_count,
                   list_OTU, k, j, flag, identity, output>>

\* if get_identity(align) >= 97.0: flag = False; break
CheckIdentity ==
    /\ pc = "identity"
    /\ IF Len(align[1]) = 0
       THEN /\ pc' = "error"
            /\ err' = "ZeroDivisionError"
            /\ UNCHANGED <<identity, flag, j>>
       ELSE /\ identity' = get_identity(align)
            /\ UNCHANGED err
            /\ IF Reaches(identity', IdentityThreshold)
               THEN /\ flag' = FALSE
                    /\ pc' = "endscan"
                    /\ UNCHANGED j
               ELSE /\ j' = j + 1
                    /\ pc' = "scan"
                    /\ UNCHANGED flag
    /\ UNCHANGED <<file, minseqlen, mincount, i, sequence, sequences, seq_count,
                   list_OTU, k, align, calls, output>>

\* A matched candidate adds its count to the OTU it matched.
EndScanAccumulate ==
    /\ \/ pc = "endscan"
       \/ pc = "scan" /\ j > Len(list_OTU)
    /\ list_OTU' = IF flag
                   THEN Append(list_OTU, seq_count[k])
                   ELSE [list_OTU EXCEPT ![j] = <<@[1], @[2] + seq_count[k][2]>>]
    /\ k' = k + 1
    /\ pc' = "loop"
    /\ UNCHANGED <<file, minseqlen, mincount, err, i, sequence, sequences,
                   seq_count, j, flag, align, identity, calls, output>>

\* A new OTU is put at the front of the list.
EndScanPrepend ==
    /\ \/ pc = "endscan"
       \/ pc = "scan" /\ j > Len(list_OTU)
    /\ list_OTU' = IF flag THEN <<seq_count[k]>> \o list_OTU ELSE list_OTU
    /\ k' = k + 1
    /\ pc' = "loop"
    /\ UNCHANGED <<file, minseqlen, mincount, err, i, sequence, sequences,
                   seq_count, j, flag, align, identity, calls, output>>

\* the scan is over: if flag: list_OTU.append(seq)
EndScan ==
    /\ \/ pc = "endscan"
       \/ pc = "scan" /\ j > Len(list_OTU)
    /\ list_OTU' = IF flag THEN Append(list_OTU, seq_count[k]) ELSE list_OTU
    /\ k' = k + 1
    /\ pc' = "loop"
    /\ UNCHANGED <<file, minseqlen, mincount, err, i, sequence, sequences,
                   seq_count, j, flag, align, identity, calls, output>>

\* return list_OTU
Return ==
    /\ pc = "loop"
    /\ k > Len(seq_count)
    /\ pc' = "returned"
    /\ UNCHANGED <<file, minseqlen, mincount, err, i, sequence, sequences,
                   seq_count, list_OTU, k, j, flag, align, identity, calls, output>>

\* write_OTU(list_OTU, args.output_file)
WriteOTU ==
    /\ pc = "returned"
    /\ output' = Written(list_OTU)
    /\ pc' = "written"
    /\ UNCHANGED <<file, minseqlen, mincount, err, i, sequence, sequences,
                   seq_count, list_OTU, k, j, flag, align, identity, calls>>

Next ==
    \/ ReadHeader
    \/ ReadBody
    \/ ReadEnd
    \/ Dereplicate
    \/ SeedFirstOTU
    \/ NextCandidate
    \/ Align
    \/ CheckIdentity
    \/ EndScan
    \/ Return
    \/ WriteOTU

Spec == Init /\ [][Next]_vars

----------------------------------------------------------------------------
(* get_identity on its own: any pair of equal-length strings over the     *)
(* nucleotides and the gap.                                               *)

AlignChars == {"A", "C", "-"}

AlignStrings == UNION {[1..n -> AlignChars] : n \in 0..MaxAlignLen}

AlignmentPairs == {p \in AlignStrings \X AlignStrings : Len(p[1]) = Len(p[2])}

InitIdentity ==
    /\ align \in AlignmentPairs
    /\ pc = "identity_call"
    /\ err = "none"
    /\ identity = NoIdentity
    /\ file = <<>>
    /\ minseqlen = 0
    /\ mincount = 1
    /\ i = 1
    /\ sequence = <<>>
    /\ sequences = <<>>
    /\ seq_count = <<>>
    /\ list_OTU = <<>>
    /\ k = 0
    /\ j = 0
    /\ flag = TRUE
    /\ calls = <<>>
    /\ output = <<>>

\* get_identity(align)
ComputeIdentity ==
    /\ pc = "identity_call"
    /\ IF Len(align[1]) = 0
       THEN /\ pc' = "error"
            /\ err' = "ZeroDivisionError"
            /\ UNCHANGED identity
       ELSE /\ identity' = get_identity(align)
            /\ pc' = "identity_done"
            /\ UNCHANGED err
    /\ UNCHANGED <<file, minseqlen, mincount, i, sequence, sequences, seq_count,
                   list_OTU, k, j, flag, align, calls, output>>

NextIdentity == ComputeIdentity

SpecIdentity == InitIdentity /\ [][NextIdentity]_vars

----------------------------------------------------------------------------
(* What the claims are stated with *)

Range(f) == {f[x] : x \in DOMAIN f}

\* the number of positions at which the two strings of a pair agree
SamePositions(pair) == {x \in 1..Len(pair[1]) : pair[1][x] = pair[2][x]}

\* the identity of a pair is at least 97 percent
AtLeast97(pair) == 100 * Cardinality(SamePositions(pair)) >= 97 * Len(pair[1])

\* the identity of a pair is exactly 97 percent
Exactly97(pair) == 100 * Cardinality(SamePositions(pair)) = 97 * Len(pair[1])

\* the number of occurrences of s in list(read_fasta(...))
InputCount(s) == Cardinality({x \in 1..Len(sequences) : sequences[x] = s})

\* the index of the first occurrence of s in list(read_fasta(...))
FirstSeen(s) ==
    CHOOSE x \in 1..Len(sequences) :
        sequences[x] = s /\ \A y \in 1..(x - 1) : sequences[y] # s

\* the index in seq_count of a record of it
PosInSeqCount(r) == CHOOSE x \in 1..Len(seq_count) : seq_count[x] = r

\* the greedy loop has started
InCluster == pc \in {"loop", "scan", "identity", "endscan", "returned", "written"}
                 \/ (pc = "error" /\ err # "IndexError")

Dereplicated == pc \notin {"read", "derep", "identity_call", "identity_done"}

\* the calls made for the candidate seq_count[kk], in order
CallsFor(kk) == SelectSeq(calls, LAMBDA c : c.b = seq_count[kk][1])

\* a call that found the candidate to match the OTU
IsMatchCall(c) == c.ok /\ AtLeast97(c.pair)

\* the OTUs that existed when seq_count[kk] was the candidate
OTUsBefore(kk) == SelectSeq(list_OTU, LAMBDA r : PosInSeqCount(r) < kk)

\* the candidate seq_count[kk] matched none of its calls
NoMatchFor(kk) == \A n \in 1..Len(CallsFor(kk)) : ~IsMatchCall(CallsFor(kk)[n])

----------------------------------------------------------------------------
(* C1 *)

\* C1: every record after the first is compared with the OTUs in creation
\* order, earliest first; the scan stops at the first OTU whose identity is
\* >= 97 (97 exactly is a match), and the candidate is appended to the end of
\* the OTU list iff no OTU reached 97.
C1_FirstMatchScan ==
    InCluster =>
        \* the calls of a candidate are the OTUs of its time, from the first on
        /\ \A kk \in 2..Len(seq_count) :
              LET cs == CallsFor(kk)
                  before == OTUsBefore(kk)
              IN  /\ Len(cs) <= Len(before)
                  /\ \A n \in 1..Len(cs) : cs[n].a = before[n][1]
                  \* only the last call of a candidate can be a match
                  /\ \A n \in 1..(Len(cs) - 1) : ~IsMatchCall(cs[n])
                  \* a candidate not yet reached has no call
                  /\ kk > k => cs = <<>>
                  \* a finished candidate was compared until a match or to the end
                  /\ kk < k => (NoMatchFor(kk) => Len(cs) = Len(before))
        \* the candidates are taken in dereplicated order
        /\ \A m, n \in 1..Len(calls) :
              m < n => \E km, kn \in 2..Len(seq_count) :
                          /\ seq_count[km][1] = calls[m].b
                          /\ seq_count[kn][1] = calls[n].b
                          /\ km <= kn
        \* the OTU list: the first record, then the finished candidates without
        \* a match, in order
        /\ list_OTU = SelectSeq(SubSeq(seq_count, 1, k - 1),
                                LAMBDA r : \/ r = seq_count[1]
                                           \/ NoMatchFor(PosInSeqCount(r)))

\* a candidate matched the first of two OTUs at exactly 97 percent and was
\* not compared with the second
C1_Witness ==
    /\ pc = "loop"
    /\ \E kk \in 2..(k - 1) :
          /\ Len(OTUsBefore(kk)) >= 2
          /\ Len(CallsFor(kk)) = 1
          /\ CallsFor(kk)[1].ok
          /\ Exactly97(CallsFor(kk)[1].pair)
          /\ seq_count[kk] \notin Range(list_OTU)

----------------------------------------------------------------------------
(* C2 *)

C2_Inv == \A p \in 1..Len(list_OTU) : list_OTU[p] \in Range(seq_count)

C2_Step ==
    /\ \A p \in 1..Len(list_OTU) :
          p <= Len(list_OTU') /\ list_OTU'[p] = list_OTU[p]
    /\ (pc = "endscan" /\ ~flag) => list_OTU' = list_OTU
    /\ pc = "identity" => list_OTU' = list_OTU

\* C2: every OTU record is the record of seq_count that seeded it, sequence
\* and count; no step changes an OTU record, and the step that ends the scan
\* of a matched candidate leaves the OTU list as it is.
C2_CountIsSeedCount == []C2_Inv /\ [][C2_Step]_vars

\* a candidate matched the first OTU and was discarded; the OTU still holds
\* the record that seeded it
C2_Witness ==
    /\ pc = "loop"
    /\ \E kk \in 2..(k - 1) :
          /\ ~NoMatchFor(kk)
          /\ CallsFor(kk)[Len(CallsFor(kk))].a = list_OTU[1][1]
          /\ seq_count[kk] \notin Range(list_OTU)
    /\ list_OTU[1] = seq_count[1]

----------------------------------------------------------------------------
(* C3 *)

\* C3: the returned OTU list is an order-preserving subsequence of the
\* dereplicated list and starts with its first record, unchanged.
C3_OrderedSubsequence ==
    pc \in {"returned", "written"} =>
        /\ list_OTU # <<>>
        /\ list_OTU[1] = seq_count[1]
        /\ \A p \in 1..Len(list_OTU) : list_OTU[p] \in Range(seq_count)
        /\ \A p, q \in 1..Len(list_OTU) :
              p < q => PosInSeqCount(list_OTU[p]) < PosInSeqCount(list_OTU[q])

\* at least two OTUs are returned, the last record among them, and a record
\* before it was dropped
C3_Witness ==
    /\ pc = "returned"
    /\ Len(list_OTU) >= 2
    /\ Len(list_OTU) < Len(seq_count)
    /\ list_OTU[Len(list_OTU)] = seq_count[Len(seq_count)]

----------------------------------------------------------------------------
(* C4 *)

\* C4: dereplication emits exactly one record for each distinct sequence
\* that occurs at least mincount times in its input, none for any other,
\* and the count of a record is the number of occurrences of its sequence.
C4_ExactCounts ==
    Dereplicated =>
        /\ \A s \in Range(sequences) :
              InputCount(s) >= mincount
                  => Cardinality({x \in 1..Len(seq_count) : seq_count[x][1] = s}) = 1
        /\ \A x \in 1..Len(seq_count) :
              /\ seq_count[x][1] \in Range(sequences)
              /\ seq_count[x][2] = InputCount(seq_count[x][1])
              /\ seq_count[x][2] >= mincount

\* a record occurs exactly mincount = 2 times and another sequence, seen
\* once, is dropped
C4_Witness ==
    /\ pc = "seed"
    /\ mincount = 2
    /\ \E x \in 1..Len(seq_count) : seq_count[x][2] = 2
    /\ \E s \in Range(sequences) : InputCount(s) = 1

----------------------------------------------------------------------------
(* C5 *)

\* C5: the records are in non-increasing order of count and records of
\* equal count are in the order of their first occurrence in the input.
C5_SortedStable ==
    Dereplicated =>
        \A p, q \in 1..Len(seq_count) :
            p < q =>
                /\ seq_count[p][2] >= seq_count[q][2]
                /\ seq_count[p][2] = seq_count[q][2]
                      => FirstSeen(seq_count[p][1]) < FirstSeen(seq_count[q][1])

\* two records tie behind a record that was first seen after both
C5_Witness ==
    /\ pc = "seed"
    /\ Len(seq_count) >= 3
    /\ seq_count[2][2] = seq_count[3][2]
    /\ seq_count[1][2] > seq_count[2][2]
    /\ FirstSeen(seq_count[1][1]) > FirstSeen(seq_count[3][1])

----------------------------------------------------------------------------
(* C6 *)

\* C6: when no record passes the abundance filter, or the file is empty,
\* the run returns an empty OTU list and does not end in an error.
C6_EmptyGivesEmptyList ==
    (/\ pc \notin {"read", "derep", "seed", "identity_call", "identity_done"}
     /\ \/ seq_count = <<>>
        \/ file = <<>> /\ minseqlen > 0)
        => /\ pc \in {"returned", "written"}
           /\ list_OTU = <<>>

----------------------------------------------------------------------------
(* C7 *)

\* C7: every sequence yielded by read_fasta, and every record emitted by
\* dereplication_fulllength, has length >= minseqlen.
C7_LengthFiltered ==
    /\ \A x \in 1..Len(sequences) : Len(sequences[x]) >= minseqlen
    /\ \A x \in 1..Len(seq_count) : Len(seq_count[x][1]) >= minseqlen

----------------------------------------------------------------------------
(* C8 *)

\* C8: a failed aligner call is the last call of the run, which then is in
\* the error state with no OTU list returned or written; no pair (OTU,
\* candidate) is aligned twice.
C8_AlignFailureAborts ==
    /\ \A n \in 1..Len(calls) :
          ~calls[n].ok =>
              /\ n = Len(calls)
              /\ pc = "error"
              /\ err = "AlignError"
              /\ output = <<>>
    /\ \A m, n \in 1..Len(calls) :
          m < n => <<calls[m].a, calls[m].b>> # <<calls[n].a, calls[n].b>>

\* the aligner failed on the third comparison of a run, for a candidate that
\* had already passed one OTU
C8_Witness ==
    /\ pc = "error"
    /\ err = "AlignError"
    /\ Len(calls) >= 3
    /\ ~calls[Len(calls)].ok
    /\ calls[Len(calls) - 1].b = calls[Len(calls)].b
    /\ Len(list_OTU) >= 2

----------------------------------------------------------------------------
(* C9 *)

\* the positions at which exactly one string holds a gap
OneSidedGaps(pair) ==
    {x \in 1..Len(pair[1]) : (pair[1][x] = "-") # (pair[2][x] = "-")}

\* C9: for two equal-length non-empty strings get_identity is
\* 100 * (number of positions with the same character) / length; a position
\* with a gap in one string only is not counted; a string against itself
\* gives 100 and two strings that differ everywhere give 0.
C9_IdentityValue ==
    pc = "identity_done" =>
        /\ identity.den > 0
        /\ identity.num * Len(align[1])
              = 100 * Cardinality(SamePositions(align)) * identity.den
        /\ identity.num * Len(align[1])
              <= 100 * (Len(align[1]) - Cardinality(OneSidedGaps(align))) * identity.den
        /\ align[1] = align[2] => identity.num = 100 * identity.den
        /\ (\A x \in 1..Len(align[1]) : align[1][x] # align[2][x]) => identity.num = 0

\* an identity strictly between 0 and 100 for a pair with a one-sided gap
\* and a column of two gaps
C9_Witness ==
    /\ pc = "identity_done"
    /\ OneSidedGaps(align) # {}
    /\ \E x \in 1..Len(align[1]) : align[1][x] = "-" /\ align[2][x] = "-"
    /\ identity.num > 0
    /\ identity.num < 100 * identity.den

----------------------------------------------------------------------------
(* C10 *)

\* C10: any two OTUs were aligned, the earlier with the later, with an
\* identity below 97; every finished candidate that is not an OTU was aligned
\* at >= 97 with an OTU created before it was the candidate.
C10_GreedyInvariant ==
    InCluster =>
        /\ \A p, q \in 1..Len(list_OTU) :
              p < q => \E n \in 1..Len(calls) :
                          /\ calls[n].a = list_OTU[p][1]
                          /\ calls[n].b = list_OTU[q][1]
                          /\ calls[n].ok
                          /\ ~AtLeast97(calls[n].pair)
        /\ \A kk \in 2..(k - 1) :
              seq_count[kk] \notin Range(list_OTU) =>
                  \E n \in 1..Len(calls) :
                      /\ calls[n].b = seq_count[kk][1]
                      /\ calls[n].ok
                      /\ AtLeast97(calls[n].pair)
                      /\ \E p \in 1..Len(list_OTU) :
                            /\ list_OTU[p][1] = calls[n].a
                            /\ PosInSeqCount(list_OTU[p]) < kk

\* after an iteration: two OTUs, and a finished candidate absorbed by one
C10_Witness ==
    /\ pc = "loop"
    /\ Len(list_OTU) >= 2
    /\ \E kk \in 2..(k - 1) : seq_count[kk] \notin Range(list_OTU)
    /\ k = Len(seq_count) + 1

====
